---- MODULE Spec2Model ----
(***************************************************************************)
(* autocd-go: directory inheritance by process replacement.               *)
(*                                                                         *)
(* A path or a shell path is a sequence of one-byte tokens.  The token     *)
(* LongRun stands for a run of StrictMaxLen ordinary bytes, so that the    *)
(* length ceiling of strict validation is reachable with short sequences.  *)
(***************************************************************************)
EXTENDS Integers, Sequences, FiniteSets, TLC

VARIABLES
    pc,            \* position of the invocation of ExitWithDirectoryAdvanced
    targetPath,    \* argument targetPath
    opts,          \* argument opts ([isNil |-> TRUE] models a nil pointer)
    envShell,      \* value of the SHELL environment variable (<<>> = unset/empty)
    files,         \* regular files of the system temp directory and of the custom one
    targetStat,    \* what os.Stat / os.ReadDir answered for the target
    validatedPath, \* local validatedPath
    shell,         \* local shell (*ShellInfo)
    scriptContent, \* local scriptContent
    scriptPath,    \* local scriptPath (id of the created file, 0 = none)
    ret,           \* the error value returned to the caller
    trace,         \* the fallible steps run so far, in order
    failedAt,      \* the step that ended the call, "" if none did
    interfered,    \* another process removed this invocation's script file
    fn,            \* pure-function specifications: the function applied
    arg,           \* its inputs
    out            \* its outputs

vars == <<pc, targetPath, opts, envShell, files, targetStat, validatedPath, shell,
          scriptContent, scriptPath, ret, trace, failedAt, interfered, fn, arg, out>>

orchVars == <<pc, targetPath, opts, envShell, files, targetStat, validatedPath, shell,
              scriptContent, scriptPath, ret, trace, failedAt, interfered>>

-----------------------------------------------------------------------------
(* Bounds *)

MaxPathLen == 3
MaxScriptPathLen == 3
MaxShellPathLen == 2
MaxStaleFiles == 2
MaxExtLen == 2

-----------------------------------------------------------------------------
(* Bytes and strings *)

NUL == "NUL"
LF == "LF"
DEL == "DEL"
LongRun == "A4096"
SQ == "'"
DQ == "\""
BS == "\\"
BQ == "BQ"

StrictMaxLen == 4096

PathMax == StrictMaxLen

ControlBytes == {NUL, LF, DEL}

dangerousChars == {";", "|", "&", BQ, "$", "(", ")", "<", ">"}

StringsUpTo(A, n) == UNION {[1..k -> A] : k \in 0..n}

Contains(s, c) == \E i \in 1..Len(s) : s[i] = c

ContainsAny(s, C) == \E i \in 1..Len(s) : s[i] \in C

RECURSIVE ByteLen(_)
ByteLen(s) ==
    IF s = <<>> THEN 0
    ELSE (IF Head(s) = LongRun THEN StrictMaxLen ELSE 1) + ByteLen(Tail(s))

RECURSIVE SplitAcc(_, _, _)
SplitAcc(p, cur, acc) ==
    IF p = <<>> THEN Append(acc, cur)
    ELSE IF Head(p) = "/" THEN SplitAcc(Tail(p), <<>>, Append(acc, cur))
    ELSE SplitAcc(Tail(p), Append(cur, Head(p)), acc)

RECURSIVE CleanComps(_, _, _)
CleanComps(comps, stack, rooted) ==
    IF comps = <<>> THEN stack
    ELSE LET c == Head(comps)
             rest == Tail(comps)
         IN  IF c = <<>> \/ c = <<".">> THEN CleanComps(rest, stack, rooted)
             ELSE IF c = <<".", ".">>
                  THEN IF stack # <<>> /\ stack[Len(stack)] # <<".", ".">>
                       THEN CleanComps(rest, SubSeq(stack, 1, Len(stack) - 1), rooted)
                       ELSE IF rooted THEN CleanComps(rest, stack, rooted)
                       ELSE CleanComps(rest, Append(stack, c), rooted)
                  ELSE CleanComps(rest, Append(stack, c), rooted)

RECURSIVE JoinComps(_)
JoinComps(stack) ==
    IF stack = <<>> THEN <<>>
    ELSE IF Len(stack) = 1 THEN stack[1]
    ELSE stack[1] \o <<"/">> \o JoinComps(Tail(stack))

\* filepath.Clean on a Unix path
Clean(p) ==
    IF p = <<>> THEN <<".">>
    ELSE LET rooted == Head(p) = "/"
             body == JoinComps(CleanComps(SplitAcc(p, <<>>, <<>>), <<>>, rooted))
         IN  IF rooted THEN <<"/">> \o body
             ELSE IF body = <<>> THEN <<".">> ELSE body

IsAbs(p) == p # <<>> /\ Head(p) = "/"

Cwd == <<"/", "w">>

\* filepath.Abs: the working directory is consulted only for a relative path
Abs(p, getwdOK) ==
    IF IsAbs(p) THEN [path |-> Clean(p), err |-> "nil"]
    ELSE IF ~getwdOK THEN [path |-> <<>>, err |-> "getwd"]
    ELSE [path |-> Clean(IF p = <<>> THEN Cwd ELSE Cwd \o <<"/">> \o p), err |-> "nil"]

-----------------------------------------------------------------------------
(* Types *)

SecurityNormal == 0
SecurityStrict == 1
SecurityPermissive == 2

ErrorKinds == {"ErrorPathNotFound", "ErrorPathNotDirectory", "ErrorPathNotAccessible",
               "ErrorShellNotFound", "ErrorScriptGeneration", "ErrorScriptExecution",
               "ErrorSecurityViolation"}

NilError == [nil |-> TRUE, structured |-> FALSE, Type |-> "", Message |-> "",
             Path |-> <<>>, Cause |-> "nil"]

AutoCDError(type, message, path, cause) ==
    [nil |-> FALSE, structured |-> TRUE, Type |-> type, Message |-> message,
     Path |-> path, Cause |-> cause]

\* an error value that is not an *AutoCDError (fmt.Errorf, syscall.Errno)
BareError(cause) ==
    [nil |-> FALSE, structured |-> FALSE, Type |-> "", Message |-> cause,
     Path |-> <<>>, Cause |-> cause]

\* only the two path kinds the switch names are recoverable
IsRecoverableNamedOnly(e) ==
    CASE e.Type \in {"ErrorPathNotFound", "ErrorPathNotAccessible"} -> TRUE
      [] e.Type = "ErrorShellNotFound" -> FALSE
      [] OTHER -> FALSE

\* switch e.Type { case PathNotFound, PathNotAccessible: true;
\*                 case ShellNotFound: false; default: true }
IsRecoverable(e) ==
    CASE e.Type \in {"ErrorPathNotFound", "ErrorPathNotAccessible"} -> TRUE
      [] e.Type = "ErrorShellNotFound" -> FALSE
      [] OTHER -> TRUE

-----------------------------------------------------------------------------
(* errors *)

newPathError(errType, path, cause) ==
    AutoCDError(errType, "path error", path, cause)

newPathValidationError(path, cause) ==
    AutoCDError(CASE cause = "ErrPathNotDirectory" -> "ErrorPathNotDirectory"
                  [] cause = "ErrPathNotFound" -> "ErrorPathNotFound"
                  [] cause = "ErrPathNotAccessible" -> "ErrorPathNotAccessible"
                  [] cause = "ErrSecurityViolation" -> "ErrorSecurityViolation"
                  [] OTHER -> "ErrorPathNotFound",
                "autocd: path validation failed", path, cause)

newShellDetectionError(message) ==
    AutoCDError("ErrorShellNotFound", message, <<>>, "nil")

newScriptGenerationError(cause) ==
    AutoCDError("ErrorScriptGeneration", "autocd: script generation failed", <<>>, cause)

newScriptCreationError(cause) ==
    AutoCDError("ErrorScriptGeneration", "autocd: script creation failed", <<>>, cause)

\* the cause handed back as it is, without the AutoCDError around it
returnExecutionCause(cause) == BareError(cause)

newScriptExecutionError(cause) ==
    AutoCDError("ErrorScriptExecution", "autocd: script execution failed", <<>>, cause)

-----------------------------------------------------------------------------
(* validation *)

StatOutcomes == {"absent", "file", "dir_unlistable", "dir", "error"}

\* os.Stat cannot succeed on a name that holds a NUL byte or exceeds PATH_MAX
StatPossible(p, st) ==
    (Contains(p, NUL) \/ ByteLen(p) >= PathMax) => st = "error"

isValidUnixPath(path) == ~ContainsAny(path, ControlBytes)

validateStrict(path) ==
    IF ~isValidUnixPath(path) THEN [path |-> <<>>, err |-> "ErrSecurityViolation"]
    ELSE IF ByteLen(path) > StrictMaxLen THEN [path |-> <<>>, err |-> "ErrSecurityViolation"]
    ELSE [path |-> path, err |-> "nil"]

\* the normal policy with the shell metacharacters rejected
validateNormalRejectingMeta(path) ==
    IF ContainsAny(path, dangerousChars) \/ Contains(path, NUL)
    THEN [path |-> <<>>, err |-> "ErrSecurityViolation"]
    ELSE [path |-> Clean(path), err |-> "nil"]

validateNormal(path) ==
    IF Contains(path, NUL) THEN [path |-> <<>>, err |-> "ErrSecurityViolation"]
    ELSE [path |-> Clean(path), err |-> "nil"]

\* a Permissive policy that turns away the shell metacharacters
validatePermissiveRejectingMeta(path) ==
    IF ContainsAny(path, dangerousChars) THEN [path |-> <<>>, err |-> "ErrSecurityViolation"]
    ELSE [path |-> Clean(path), err |-> "nil"]

validatePermissive(path) == [path |-> Clean(path), err |-> "nil"]

\* the validation without the os.ReadDir check
validateTargetPathUnlisted(path, level, getwdOK, st) ==
    LET a == Abs(path, getwdOK)
    IN  IF a.err # "nil" THEN [path |-> <<>>, err |-> "invalid path"]
        ELSE IF st = "error" THEN [path |-> <<>>, err |-> "failed to stat path"]
        ELSE IF st = "absent" THEN [path |-> <<>>, err |-> "ErrPathNotFound"]
        ELSE IF st = "file" THEN [path |-> <<>>, err |-> "ErrPathNotDirectory"]
        ELSE IF level = SecurityStrict THEN validateStrict(a.path)
        ELSE IF level = SecurityPermissive THEN validatePermissive(a.path)
        ELSE validateNormal(a.path)

\* getwdOK and st are the answers of os.Getwd and of os.Stat / os.ReadDir
validateTargetPath(path, level, getwdOK, st) ==
    LET a == Abs(path, getwdOK)
    IN  IF a.err # "nil" THEN [path |-> <<>>, err |-> "invalid path"]
        ELSE IF st = "error" THEN [path |-> <<>>, err |-> "failed to stat path"]
        ELSE IF st = "absent" THEN [path |-> <<>>, err |-> "ErrPathNotFound"]
        ELSE IF st = "file" THEN [path |-> <<>>, err |-> "ErrPathNotDirectory"]
        ELSE IF st = "dir_unlistable" THEN [path |-> <<>>, err |-> "ErrPathNotAccessible"]
        ELSE IF level = SecurityStrict THEN validateStrict(a.path)
        ELSE IF level = SecurityNormal THEN validateNormal(a.path)
        ELSE IF level = SecurityPermissive THEN validatePermissive(a.path)
        ELSE validateNormal(a.path)

ValidateDirectory(targetPath_, securityLevel, getwdOK, st) ==
    LET r == validateTargetPath(targetPath_, securityLevel, getwdOK, st)
    IN  IF r.err # "nil" THEN newPathValidationError(targetPath_, r.err) ELSE NilError

-----------------------------------------------------------------------------
(* shell *)

BinSh == <<"/", "b", "i", "n", "/", "s", "h">>

ShellStatOutcomes == {"absent", "dir", "file_noexec", "file_exec", "error"}

\* scriptExt := ".sh"
ShExt == <<".", "s", "h">>

NoShell == [isNil |-> TRUE, Path |-> <<>>, ScriptExt |-> <<>>, IsValid |-> FALSE]

ShellInfo(path, valid) ==
    [isNil |-> FALSE, Path |-> path, ScriptExt |-> ShExt, IsValid |-> valid]

\* st is the answer of os.Stat; on an error other than "not exist" info is nil
\* and info.IsDir() dereferences it
fileExists(st) ==
    IF st = "absent" THEN [panic |-> FALSE, val |-> FALSE]
    ELSE IF st = "error" THEN [panic |-> TRUE, val |-> FALSE]
    ELSE [panic |-> FALSE, val |-> st # "dir"]

\* exec.LookPath of a bare name: found in a PATH directory or not
LookPath(name, found) ==
    IF found THEN [path |-> <<"/", "u", "/">> \o name, err |-> "nil"]
    ELSE [path |-> <<>>, err |-> "not found"]

validateShellOverride(shellOverride, found, st) ==
    IF IsAbs(shellOverride)
    THEN LET e == fileExists(st)
         IN  [panic |-> e.panic, info |-> ShellInfo(shellOverride, e.val)]
    ELSE LET l == LookPath(shellOverride, found)
         IN  IF l.err # "nil"
             THEN [panic |-> FALSE, info |-> ShellInfo(shellOverride, FALSE)]
             ELSE LET e == fileExists(st)
                  IN  [panic |-> e.panic, info |-> ShellInfo(l.path, e.val)]

detectUnixShell(envSHELL, st) ==
    LET sh == IF envSHELL = <<>> THEN BinSh ELSE envSHELL
        e == fileExists(st)
    IN  [panic |-> e.panic, info |-> ShellInfo(sh, e.val)]

detectShell(shellOverride, envSHELL, found, st) ==
    IF shellOverride # <<>> THEN validateShellOverride(shellOverride, found, st)
    ELSE detectUnixShell(envSHELL, st)

-----------------------------------------------------------------------------
(* script *)

\* the path embedded without any escaping
leavePathUnescaped(path) == path

RECURSIVE sanitizePathForShell(_)
sanitizePathForShell(path) ==
    IF path = <<>> THEN <<>>
    ELSE (IF Head(path) = SQ THEN <<SQ, DQ, SQ, DQ, SQ>> ELSE <<Head(path)>>)
         \o sanitizePathForShell(Tail(path))

NoScript == [shebang |-> "", TARGET_DIR |-> <<>>, SHELL_PATH |-> <<>>]

\* the two words right of the "=" of the assignments; the rest of the text is fixed
generateUnixScript(targetDir, shellPath) ==
    [shebang |-> "#!/bin/sh",
     TARGET_DIR |-> <<SQ>> \o targetDir \o <<SQ>>,
     SHELL_PATH |-> <<SQ>> \o shellPath \o <<SQ>>]

generateScript(targetDir, shell_) ==
    [script |-> generateUnixScript(sanitizePathForShell(targetDir), shell_.Path),
     err |-> "nil"]

\* How a POSIX shell reads the word of an assignment: val is the value assigned,
\* ok is FALSE when the word ends early, is unterminated, or runs an expansion.
ShOperators == {";", "|", "&", "(", ")", "<", ">", " ", LF}

ShExpansions == {"$", BQ}

RECURSIVE ShWord(_, _, _)
ShWord(w, mode, val) ==
    IF w = <<>> THEN [val |-> val, ok |-> mode = "plain"]
    ELSE LET c == Head(w)
             r == Tail(w)
         IN  CASE mode = "single" ->
                    IF c = SQ THEN ShWord(r, "plain", val)
                    ELSE ShWord(r, "single", Append(val, c))
               [] mode = "double" ->
                    IF c = DQ THEN ShWord(r, "plain", val)
                    ELSE IF c \in ShExpansions THEN [val |-> val, ok |-> FALSE]
                    ELSE IF c = BS /\ r # <<>> /\ Head(r) \in {"$", BQ, DQ, BS}
                         THEN ShWord(Tail(r), "double", Append(val, Head(r)))
                    ELSE IF c = BS /\ r # <<>> /\ Head(r) = LF
                         THEN ShWord(Tail(r), "double", val)
                    ELSE ShWord(r, "double", Append(val, c))
               [] OTHER ->
                    IF c = SQ THEN ShWord(r, "single", val)
                    ELSE IF c = DQ THEN ShWord(r, "double", val)
                    ELSE IF c \in ShOperators \cup ShExpansions
                         THEN [val |-> val, ok |-> FALSE]
                    ELSE IF c = BS
                         THEN IF r = <<>> THEN [val |-> val, ok |-> FALSE]
                              ELSE IF Head(r) = LF THEN ShWord(Tail(r), "plain", val)
                              ELSE ShWord(Tail(r), "plain", Append(val, Head(r)))
                    ELSE ShWord(r, "plain", Append(val, c))

ShAssign(word) == ShWord(word, "plain", <<>>)

-----------------------------------------------------------------------------
(* tempfile *)

Bit(n, k) == (n \div (2 ^ k)) % 2

AndNot(d, m) ==
    Bit(d, 0) * (1 - Bit(m, 0)) + 2 * Bit(d, 1) * (1 - Bit(m, 1))
        + 4 * Bit(d, 2) * (1 - Bit(m, 2))

\* permission bits as the three octal digits <<owner, group, other>>
Umasks == {<<0, 0, 0>>, <<0, 2, 2>>, <<0, 7, 7>>, <<2, 0, 0>>}

\* os.CreateTemp opens the file with 0600, which the umask reduces
CreateTempMode(umask) ==
    <<AndNot(6, umask[1]), AndNot(0, umask[2]), AndNot(0, umask[3])>>

\* the permissions SetExecutablePermissions gives (0755)
ScriptModeShared == <<7, 5, 5>>

\* os.Chmod(tmpFile.Name(), 0700)
ScriptMode == <<7, 0, 0>>

TempDirOf(tempDir) == IF tempDir = "" THEN "sys" ELSE tempDir

FileById(fs, id) == CHOOSE f \in fs : f.id = id

HasFile(fs, id) == \E f \in fs : f.id = id

OsRemove(fs, id) == {f \in fs : f.id # id}

FreshId(fs) == CHOOSE n \in 1..(Cardinality(fs) + 1) : ~HasFile(fs, n)

AutocdPrefix == "autocd_"

\* the random digits os.CreateTemp puts in place of the "*"
RandomPart == "RND"

\* pattern := "autocd_*" + extension
CreateTempPattern(extension) == <<AutocdPrefix, "*">> \o extension

LastIndex(s, c) ==
    IF Contains(s, c) THEN CHOOSE i \in 1..Len(s) : s[i] = c /\ \A j \in (i + 1)..Len(s) : s[j] # c
    ELSE 0

\* os.CreateTemp: a path separator is an error, the last "*" splits the pattern
prefixAndSuffix(pattern) ==
    IF Contains(pattern, "/") THEN [prefix |-> <<>>, suffix |-> <<>>, err |-> "pattern contains path separator"]
    ELSE LET pos == LastIndex(pattern, "*")
         IN  IF pos = 0 THEN [prefix |-> pattern, suffix |-> <<>>, err |-> "nil"]
             ELSE [prefix |-> SubSeq(pattern, 1, pos - 1),
                   suffix |-> SubSeq(pattern, pos + 1, Len(pattern)), err |-> "nil"]

HasPrefix(s, c) == s # <<>> /\ Head(s) = c

HasSuffix(s, t) == Len(t) <= Len(s) /\ SubSeq(s, Len(s) - Len(t) + 1, Len(s)) = t

\* the file os.CreateTemp(tempDir, pattern) makes: prefix, random digits, suffix
NewTempFile(fs, tempDir, extension, umask) ==
    LET ps == prefixAndSuffix(CreateTempPattern(extension))
    IN  [id |-> FreshId(fs), dir |-> TempDirOf(tempDir),
         prefixed |-> HasPrefix(ps.prefix, AutocdPrefix),
         ext |-> ps.suffix, age |-> 0, mode |-> CreateTempMode(umask),
         content |-> NoScript, mine |-> TRUE, isDir |-> FALSE]

\* tmpFile.Name()
TempFileName(tempDir, extension) ==
    LET ps == prefixAndSuffix(CreateTempPattern(extension))
    IN  <<TempDirOf(tempDir), "/">> \o ps.prefix \o <<RandomPart>> \o ps.suffix

\* the created file is left in place when a later step fails
KeepOnFailure(fs, id) == fs

\* os.Remove(tmpFile.Name()) after a failed write or chmod
RemoveOnFailure(fs, id) == OsRemove(fs, id)

\* created, written, changed: os.CreateTemp, WriteString and os.Chmod succeeded
createTemporaryScript(fs, content, extension, tempDir, created, umask, written, changed) ==
    IF prefixAndSuffix(CreateTempPattern(extension)).err # "nil" \/ ~created
    THEN [files |-> fs, id |-> 0, name |-> <<>>, err |-> "failed to create temp file"]
    ELSE LET f == NewTempFile(fs, tempDir, extension, umask)
         IN  IF ~written
             THEN [files |-> RemoveOnFailure(fs \cup {f}, f.id), id |-> 0, name |-> <<>>,
                   err |-> "failed to write script"]
             ELSE IF ~changed
             THEN [files |-> RemoveOnFailure(fs \cup {f}, f.id), id |-> 0, name |-> <<>>,
                   err |-> "failed to set permissions"]
             ELSE [files |-> fs \cup {[f EXCEPT !.content = content, !.mode = ScriptMode]},
                   id |-> f.id, name |-> TempFileName(tempDir, extension), err |-> "nil"]

\* the old entries of the temp directory, whatever their name
StaleEntriesAnyName(fs, maxAge) ==
    {f \in fs : f.dir = "sys" /\ f.age > maxAge}

\* the entries cleanupOldScripts passes to os.Remove
StaleEntries(fs, maxAge) ==
    {f \in fs : f.dir = "sys" /\ f.prefixed /\ f.age > maxAge}

\* a pass that stops after its first deletion
cleanupOldestScript(fs, maxAge, readOK, kept) ==
    LET stale == StaleEntries(fs, maxAge) \ kept
    IN  IF ~readOK THEN [files |-> fs, err |-> "readdir"]
        ELSE IF stale = {} THEN [files |-> fs, err |-> "nil"]
        ELSE [files |-> fs \ {CHOOSE f \in stale : \A g \in stale : f.id <= g.id},
              err |-> "nil"]

\* readOK: os.ReadDir succeeded; kept: the entries whose Info or Remove failed
cleanupOldScripts(fs, maxAge, readOK, kept) ==
    IF ~readOK THEN [files |-> fs, err |-> "readdir"]
    ELSE [files |-> fs \ (StaleEntries(fs, maxAge) \ kept), err |-> "nil"]

OrchestratorMaxAge == 1

DefaultMaxAge == 24

-----------------------------------------------------------------------------
(* exec *)

\* no call of syscall.Exec was made
NoExec == [executable |-> <<>>, args |-> <<>>]

\* the detected shell is the program that runs the script
executeScriptWithShell(scriptPath_, shell_) ==
    [executable |-> shell_.Path, args |-> <<shell_.Path, scriptPath_>>]

\* the program and the argument vector handed to syscall.Exec
executeScript(scriptPath_, shell_) ==
    [executable |-> BinSh, args |-> <<BinSh, scriptPath_>>]

\* what os.Stat answers for the script path; "special" is a FIFO, socket or
\* device, for which IsDir() is false
ScriptStatOutcomes ==
    {"absent", "error", "dir", "file_noexec", "file_exec", "special_noexec", "special_exec"}

\* info.Mode()&0111 != 0
AnyExecBit(mode) == mode[1] % 2 = 1 \/ mode[2] % 2 = 1 \/ mode[3] % 2 = 1

\* os.Stat of a file of the temp directories
ScriptStat(fs, id) ==
    IF ~HasFile(fs, id) THEN "absent"
    ELSE IF AnyExecBit(FileById(fs, id).mode) THEN "file_exec"
    ELSE "file_noexec"

\* st: the answer of os.Stat(scriptPath); execOK: syscall.Exec replaced the image
ExecReplacement(scriptPath_, shell_, st, execOK) ==
    IF scriptPath_ = 0
    THEN [replaced |-> FALSE, exec |-> NoExec,
          err |-> newPathError("ErrorPathNotFound", <<>>, "script path is empty")]
    ELSE IF shell_.isNil
    THEN [replaced |-> FALSE, exec |-> NoExec, err |-> newShellDetectionError("shell info is nil")]
    ELSE IF ~shell_.IsValid
    THEN [replaced |-> FALSE, exec |-> NoExec, err |-> newShellDetectionError("shell is not valid")]
    ELSE IF st = "absent"
    THEN [replaced |-> FALSE, exec |-> NoExec,
          err |-> newPathError("ErrorPathNotFound", <<>>, "script file does not exist")]
    ELSE IF st = "error"
    THEN [replaced |-> FALSE, exec |-> NoExec,
          err |-> newPathError("ErrorPathNotAccessible", <<>>, "unable to access script")]
    ELSE IF st = "dir"
    THEN [replaced |-> FALSE, exec |-> NoExec,
          err |-> newPathError("ErrorPathNotDirectory", <<>>, "script path is a directory")]
    ELSE IF st \in {"file_noexec", "special_noexec"}
    THEN [replaced |-> FALSE, exec |-> NoExec,
          err |-> newPathError("ErrorPathNotAccessible", <<>>, "script file is not executable")]
    ELSE IF execOK
    THEN [replaced |-> TRUE, exec |-> executeScript(scriptPath_, shell_), err |-> NilError]
    ELSE [replaced |-> FALSE, exec |-> executeScript(scriptPath_, shell_),
          err |-> BareError("exec: errno")]

-----------------------------------------------------------------------------
(* autocd: ExitWithDirectory / ExitWithDirectoryAdvanced *)

NilOptions == [isNil |-> TRUE, Shell |-> <<>>, SecurityLevel |-> SecurityNormal, TempDir |-> ""]

Options(shell_, level, tempDir) ==
    [isNil |-> FALSE, Shell |-> shell_, SecurityLevel |-> level, TempDir |-> tempDir]

\* if opts == nil { opts = &Options{SecurityLevel: SecurityNormal, ...} }
EffectiveOpts(o) ==
    IF o.isNil THEN Options(<<>>, SecurityNormal, "") ELSE o

\* ExitWithDirectory(targetPath) passes nil options
TargetPaths ==
    {<<"/", "a">>, <<"/", "a", SQ, ";">>, <<"a">>, <<"/", "a", NUL>>,
     <<"/", "a", "/", ".", ".">>, <<"/", LongRun>>}

ShellOverrides == {<<>>, <<"/", "z">>, <<"z">>}

EnvShells == {<<>>, <<"/", "z">>, <<"/", SQ, "z">>}

SecurityLevels == {SecurityNormal, SecurityStrict, SecurityPermissive, 3}

TempDirs == {"", "custom"}

OptionValues ==
    {NilOptions} \cup
    {Options(s, l, t) : s \in ShellOverrides, l \in SecurityLevels, t \in TempDirs}

\* files that earlier runs and other programs left in the temp directories
LeftoverKinds ==
    {[dir |-> "sys", prefixed |-> TRUE, age |-> 2],
     [dir |-> "sys", prefixed |-> TRUE, age |-> 0],
     [dir |-> "sys", prefixed |-> FALSE, age |-> 2],
     [dir |-> "custom", prefixed |-> TRUE, age |-> 2],
     [dir |-> "custom", prefixed |-> TRUE, age |-> 25]}

Leftover(i, k) ==
    [id |-> i, dir |-> k.dir, prefixed |-> k.prefixed, ext |-> ShExt, age |-> k.age,
     mode |-> ScriptMode, content |-> NoScript, mine |-> FALSE, isDir |-> FALSE]

LeftoverSets ==
    {{Leftover(i, ks[i]) : i \in 1..Len(ks)} : ks \in StringsUpTo(LeftoverKinds, MaxStaleFiles)}

\* a directory of the system temp directory whose name starts with "autocd_"
TempDirTarget == <<"/", "sys", "/", AutocdPrefix, "d">>

\* the directory entry of TempDirTarget, empty, last modified age hours ago
LeftoverDir(i, age) ==
    [id |-> i, dir |-> "sys", prefixed |-> TRUE, ext |-> <<>>, age |-> age,
     mode |-> <<7, 5, 5>>, content |-> NoScript, mine |-> FALSE, isDir |-> TRUE]

TargetEntries(fs) == {f \in fs : f.isDir /\ f.dir = "sys" /\ f.prefixed}

\* what os.Stat can answer for the resolved target, given the temp directory
TargetStatPossible(fs, p, st) ==
    /\ StatPossible(p, st)
    /\ p = TempDirTarget =>
          IF TargetEntries(fs) = {} THEN st = "absent" ELSE st \in {"dir", "dir_unlistable"}

\* the outcomes of filepath.Abs and os.Stat that validateTargetPath can meet
ValidateInputs(fs, path) ==
    {in \in [getwdOK : BOOLEAN, st : StatOutcomes] :
        LET a == Abs(path, in.getwdOK)
        IN  /\ (IsAbs(path) => in.getwdOK)
            /\ (a.err = "nil" => TargetStatPossible(fs, a.path, in.st))
            /\ (a.err # "nil" => in.st = "error")}

\* the validity flag of the descriptor is not consulted
ShellAssumedUsable(info) == TRUE

ShellUsable(info) == info.IsValid

\* the script file is left behind when the replacement fails
ReplaceFailureLeaveFile(fs, id) == fs

ReplaceFailureCleanup(fs, id) == OsRemove(fs, id)

Init ==
    /\ pc = "cleanup"
    /\ targetPath \in TargetPaths
    /\ opts \in OptionValues
    /\ envShell = <<>>
    /\ files \in LeftoverSets
    /\ targetStat = ""
    /\ validatedPath = <<>>
    /\ shell = NoShell
    /\ scriptContent = NoScript
    /\ scriptPath = 0
    /\ ret = NilError
    /\ trace = <<>>
    /\ failedAt = ""
    /\ interfered = FALSE
    /\ fn = ""
    /\ arg = <<>>
    /\ out = <<>>

\* 1. cleanupOldScripts(1 * time.Hour); its error is only logged
Cleanup ==
    /\ pc = "cleanup"
    /\ \E readOK \in BOOLEAN, kept \in SUBSET StaleEntries(files, OrchestratorMaxAge) :
          /\ (~readOK => kept = {})
          /\ files' = cleanupOldScripts(files, OrchestratorMaxAge, readOK, kept).files
    /\ pc' = "validate"
    /\ UNCHANGED <<targetPath, opts, envShell, targetStat, validatedPath, shell,
                   scriptContent, scriptPath, ret, trace, failedAt, interfered, fn, arg, out>>

\* 2. validateTargetPath(targetPath, opts.SecurityLevel)
Validate ==
    /\ pc = "validate"
    /\ \E in \in ValidateInputs(files, targetPath) :
          LET a == Abs(targetPath, in.getwdOK)
              r == validateTargetPath(targetPath, EffectiveOpts(opts).SecurityLevel,
                                      in.getwdOK, in.st)
          IN  /\ targetStat' = (IF a.err = "nil" THEN in.st ELSE "unresolved")
              /\ trace' = Append(trace, "validate")
              /\ IF r.err # "nil"
                 THEN /\ ret' = newPathValidationError(targetPath, r.err)
                      /\ pc' = "returned"
                      /\ failedAt' = "validate"
                      /\ UNCHANGED validatedPath
                 ELSE /\ validatedPath' = r.path
                      /\ pc' = "detect"
                      /\ UNCHANGED <<ret, failedAt>>
    /\ UNCHANGED <<targetPath, opts, envShell, files, shell, scriptContent, scriptPath,
                   interfered, fn, arg, out>>

\* 3. detectShell(opts.Shell); an invalid descriptor ends the call
Detect ==
    /\ pc = "detect"
    /\ \E env \in EnvShells, found \in BOOLEAN, st \in ShellStatOutcomes :
          LET o == EffectiveOpts(opts)
              d == detectShell(o.Shell, env, found, st)
              byName == o.Shell # <<>> /\ ~IsAbs(o.Shell)
          IN  /\ (o.Shell # <<>> => env = <<>>)
              /\ (~byName => ~found)
              /\ (byName /\ found => st = "file_exec")
              /\ (byName /\ ~found => st = "absent")
              /\ envShell' = env
              /\ trace' = Append(trace, "shell")
              /\ IF d.panic
                 THEN /\ pc' = "panicked"
                      /\ failedAt' = "shell"
                      /\ UNCHANGED <<shell, ret>>
                 ELSE /\ shell' = d.info
                      /\ IF ~ShellUsable(d.info)
                         THEN /\ ret' = newShellDetectionError("no valid shell found")
                              /\ pc' = "returned"
                              /\ failedAt' = "shell"
                         ELSE /\ pc' = "generate"
                              /\ UNCHANGED <<ret, failedAt>>
    /\ UNCHANGED <<targetPath, opts, files, targetStat, validatedPath, scriptContent,
                   scriptPath, interfered, fn, arg, out>>

\* 4. generateScript(validatedPath, shell)
Generate ==
    /\ pc = "generate"
    /\ LET g == generateScript(validatedPath, shell)
       IN  /\ trace' = Append(trace, "generate")
           /\ IF g.err # "nil"
              THEN /\ ret' = newScriptGenerationError(g.err)
                   /\ pc' = "returned"
                   /\ failedAt' = "generate"
                   /\ UNCHANGED scriptContent
              ELSE /\ scriptContent' = g.script
                   /\ pc' = "store_create"
                   /\ UNCHANGED <<ret, failedAt>>
    /\ UNCHANGED <<targetPath, opts, envShell, files, targetStat, validatedPath, shell,
                   scriptPath, interfered, fn, arg, out>>

\* 5. createTemporaryScript: os.CreateTemp(tempDir, "autocd_*" + extension)
StoreCreate ==
    /\ pc = "store_create"
    /\ trace' = Append(trace, "store")
    /\ \E created \in BOOLEAN, umask \in Umasks :
          IF created
          THEN LET f == NewTempFile(files, EffectiveOpts(opts).TempDir, shell.ScriptExt, umask)
               IN  /\ files' = files \cup {f}
                   /\ scriptPath' = f.id
                   /\ pc' = "store_write"
                   /\ UNCHANGED <<ret, failedAt>>
          ELSE /\ umask = <<0, 0, 0>>
               /\ ret' = newScriptCreationError("failed to create temp file")
               /\ pc' = "returned"
               /\ failedAt' = "store"
               /\ UNCHANGED <<files, scriptPath>>
    /\ UNCHANGED <<targetPath, opts, envShell, targetStat, validatedPath, shell,
                   scriptContent, interfered, fn, arg, out>>

\* createTemporaryScript: tmpFile.WriteString(content), os.Remove on failure
StoreWrite ==
    /\ pc = "store_write"
    /\ \E written \in BOOLEAN :
          IF written
          THEN /\ files' = (files \ {FileById(files, scriptPath)})
                              \cup {[FileById(files, scriptPath) EXCEPT !.content = scriptContent]}
               /\ pc' = "store_chmod"
               /\ UNCHANGED <<ret, failedAt, scriptPath>>
          ELSE /\ files' = OsRemove(files, scriptPath)
               /\ scriptPath' = 0
               /\ ret' = newScriptCreationError("failed to write script")
               /\ pc' = "returned"
               /\ failedAt' = "store"
    /\ UNCHANGED <<targetPath, opts, envShell, targetStat, validatedPath, shell,
                   scriptContent, trace, interfered, fn, arg, out>>

\* createTemporaryScript: os.Chmod(tmpFile.Name(), 0700), os.Remove on failure
StoreChmod ==
    /\ pc = "store_chmod"
    /\ \E changed \in BOOLEAN :
          IF changed
          THEN /\ files' = (files \ {FileById(files, scriptPath)})
                              \cup {[FileById(files, scriptPath) EXCEPT !.mode = ScriptMode]}
               /\ pc' = "replace"
               /\ UNCHANGED <<ret, failedAt, scriptPath>>
          ELSE /\ files' = OsRemove(files, scriptPath)
               /\ scriptPath' = 0
               /\ ret' = newScriptCreationError("failed to set permissions")
               /\ pc' = "returned"
               /\ failedAt' = "store"
    /\ UNCHANGED <<targetPath, opts, envShell, targetStat, validatedPath, shell,
                   scriptContent, trace, interfered, fn, arg, out>>

\* another process (a temp cleaner, another invocation's cleanup) removes the script
Interfere ==
    /\ pc = "replace"
    /\ ~interfered
    /\ HasFile(files, scriptPath)
    /\ files' = OsRemove(files, scriptPath)
    /\ interfered' = TRUE
    /\ UNCHANGED <<pc, targetPath, opts, envShell, targetStat, validatedPath, shell,
                   scriptContent, scriptPath, ret, trace, failedAt, fn, arg, out>>

\* 6. ExecReplacement(scriptPath, shell, opts.DebugMode); reached again only on failure
Replace ==
    /\ pc = "replace"
    /\ trace' = Append(trace, "replace")
    /\ \E execOK \in BOOLEAN, st \in {ScriptStat(files, scriptPath), "error"} :
          LET x == ExecReplacement(scriptPath, shell, st, execOK)
          IN  IF x.replaced
              THEN /\ pc' = "replaced"
                   /\ UNCHANGED <<files, ret, failedAt>>
              ELSE /\ files' = ReplaceFailureCleanup(files, scriptPath)
                   /\ ret' = newScriptExecutionError(x.err.Cause)
                   /\ pc' = "returned"
                   /\ failedAt' = "replace"
    /\ UNCHANGED <<targetPath, opts, envShell, targetStat, validatedPath, shell,
                   scriptContent, scriptPath, interfered, fn, arg, out>>

Next ==
    \/ Cleanup
    \/ Validate
    \/ Detect
    \/ Generate
    \/ StoreCreate
    \/ StoreWrite
    \/ StoreChmod
    \/ Interfere
    \/ Replace

Spec == Init /\ [][Next]_vars

-----------------------------------------------------------------------------
(* ValidateDirectory and the validation helpers, applied to arbitrary paths *)

ValidateAlphabet == {"/", ".", "a", ";", "$", SQ, NUL, LF, LongRun}

NoOut == [kind |-> "", cause |-> "", path |-> <<>>, stat |-> "", abs |-> <<>>,
          src |-> <<>>, script |-> NoScript, info |-> NoShell, panic |-> FALSE,
          val |-> FALSE, id |-> 0, snapshot |-> {}, exec |-> NoExec]

OrchIdleLocals ==
    /\ pc = "idle"
    /\ targetPath = <<>>
    /\ opts = NilOptions
    /\ envShell = <<>>
    /\ targetStat = ""
    /\ validatedPath = <<>>
    /\ shell = NoShell
    /\ scriptContent = NoScript
    /\ scriptPath = 0
    /\ ret = NilError
    /\ trace = <<>>
    /\ failedAt = ""
    /\ interfered = FALSE

OrchIdle == OrchIdleLocals /\ files = {}

InitValidate ==
    /\ OrchIdle
    /\ fn = ""
    /\ arg \in [path : StringsUpTo(ValidateAlphabet, MaxPathLen), level : SecurityLevels]
    /\ out = NoOut

\* ValidateDirectory(arg.path, arg.level)
CallValidateDirectory ==
    /\ fn = ""
    /\ \E getwdOK \in BOOLEAN, st \in StatOutcomes :
          LET a == Abs(arg.path, getwdOK)
              r == validateTargetPath(arg.path, arg.level, getwdOK, st)
              e == ValidateDirectory(arg.path, arg.level, getwdOK, st)
          IN  /\ (IsAbs(arg.path) => getwdOK)
              /\ (a.err = "nil" => StatPossible(a.path, st))
              /\ (a.err # "nil" => st = "error")
              /\ out' = [NoOut EXCEPT !.kind = e.Type, !.cause = r.err, !.path = r.path,
                                      !.stat = (IF a.err = "nil" THEN st ELSE "unresolved"),
                                      !.abs = a.path]
    /\ fn' = "ValidateDirectory"
    /\ UNCHANGED <<orchVars, arg>>

HelperOut(r) ==
    [NoOut EXCEPT !.cause = r.err, !.path = r.path, !.abs = arg.path]

\* validateStrict(arg.path)
CallValidateStrict ==
    /\ fn = ""
    /\ out' = HelperOut(validateStrict(arg.path))
    /\ fn' = "validateStrict"
    /\ UNCHANGED <<orchVars, arg>>

\* validateNormal(arg.path)
CallValidateNormal ==
    /\ fn = ""
    /\ out' = HelperOut(validateNormal(arg.path))
    /\ fn' = "validateNormal"
    /\ UNCHANGED <<orchVars, arg>>

\* validatePermissive(arg.path)
CallValidatePermissive ==
    /\ fn = ""
    /\ out' = HelperOut(validatePermissive(arg.path))
    /\ fn' = "validatePermissive"
    /\ UNCHANGED <<orchVars, arg>>

\* validateTargetPath(arg.path, level) for every level, on one state of the file system
CallValidateAtEveryLevel ==
    /\ fn = ""
    /\ \E in \in ValidateInputs({}, arg.path) :
          LET a == Abs(arg.path, in.getwdOK)
          IN  out' = [NoOut EXCEPT
                        !.stat = (IF a.err = "nil" THEN in.st ELSE "unresolved"),
                        !.abs = a.path,
                        !.snapshot = {[level |-> l,
                                       path |-> validateTargetPath(arg.path, l, in.getwdOK, in.st).path,
                                       err |-> validateTargetPath(arg.path, l, in.getwdOK, in.st).err] :
                                      l \in SecurityLevels}]
    /\ fn' = "validateTargetPath at every level"
    /\ UNCHANGED <<orchVars, arg>>

NextValidate ==
    \/ CallValidateAtEveryLevel
    \/ CallValidateDirectory
    \/ CallValidateStrict
    \/ CallValidateNormal
    \/ CallValidatePermissive

SpecValidate == InitValidate /\ [][NextValidate]_vars

-----------------------------------------------------------------------------
(* generateScript, applied to arbitrary target and shell paths *)

ScriptAlphabet == {"/", "a", SQ, DQ, BS, "$", ";", BQ}

ShellAlphabet == {"/", "s", SQ}

InitScript ==
    /\ OrchIdle
    /\ fn = ""
    /\ arg \in [targetDir : StringsUpTo(ScriptAlphabet, MaxScriptPathLen),
                shellPath : StringsUpTo(ShellAlphabet, MaxShellPathLen)]
    /\ out = NoOut

\* generateScript(arg.targetDir, &ShellInfo{Path: arg.shellPath, IsValid: true})
CallGenerateScript ==
    /\ fn = ""
    /\ out' = [NoOut EXCEPT !.src = arg.targetDir,
                            !.script = generateScript(arg.targetDir,
                                                      ShellInfo(arg.shellPath, TRUE)).script]
    /\ fn' = "generateScript"
    /\ UNCHANGED <<orchVars, arg>>

LevelPolicy(level, path) ==
    IF level = SecurityStrict THEN validateStrict(path)
    ELSE IF level = SecurityNormal THEN validateNormal(path)
    ELSE IF level = SecurityPermissive THEN validatePermissive(path)
    ELSE validateNormal(path)

\* the level's policy accepts arg.targetDir and generateScript renders what it returned
CallValidateThenGenerate ==
    /\ fn = ""
    /\ \E level \in SecurityLevels :
          LET r == LevelPolicy(level, arg.targetDir)
          IN  /\ r.err = "nil"
              /\ out' = [NoOut EXCEPT !.src = r.path, !.kind = ToString(level),
                                      !.script = generateScript(r.path,
                                                     ShellInfo(arg.shellPath, TRUE)).script]
    /\ fn' = "validate+generateScript"
    /\ UNCHANGED <<orchVars, arg>>

NextScript ==
    \/ CallGenerateScript
    \/ CallValidateThenGenerate

SpecScript == InitScript /\ [][NextScript]_vars

-----------------------------------------------------------------------------
(* detectShell and fileExists, applied to arbitrary overrides and environments *)

InitShell ==
    /\ OrchIdle
    /\ fn = ""
    /\ arg \in [shellOverride : StringsUpTo(ShellAlphabet, MaxShellPathLen),
                envSHELL : StringsUpTo(ShellAlphabet, MaxShellPathLen)]
    /\ out = NoOut

\* detectShell(arg.shellOverride) with SHELL = arg.envSHELL; st is what os.Stat
\* answers for the path fileExists is given (a broken symlink stats as absent)
CallDetectShell ==
    /\ fn = ""
    /\ \E found \in BOOLEAN, st \in ShellStatOutcomes :
          LET d == detectShell(arg.shellOverride, arg.envSHELL, found, st)
              byName == arg.shellOverride # <<>> /\ ~IsAbs(arg.shellOverride)
          IN  /\ (~byName => ~found)
              /\ (byName /\ found => st = "file_exec")
              /\ (byName /\ ~found => st = "absent")
              /\ out' = [NoOut EXCEPT !.stat = st, !.info = d.info, !.panic = d.panic,
                                      !.val = d.info.IsValid]
    /\ fn' = "detectShell"
    /\ UNCHANGED <<orchVars, arg>>

\* fileExists(arg.envSHELL)
CallFileExists ==
    /\ fn = ""
    /\ \E st \in ShellStatOutcomes :
          LET e == fileExists(st)
          IN  out' = [NoOut EXCEPT !.stat = st, !.panic = e.panic, !.val = e.val]
    /\ fn' = "fileExists"
    /\ UNCHANGED <<orchVars, arg>>

NextShell ==
    \/ CallDetectShell
    \/ CallFileExists

SpecShell == InitShell /\ [][NextShell]_vars

-----------------------------------------------------------------------------
(* createTemporaryScript, applied to arbitrary contents, extensions and directories *)

ExtAlphabet == {".", "s", "*", "/"}

StoreContents == {NoScript, generateUnixScript(<<"/", "a">>, BinSh),
                  generateUnixScript(sanitizePathForShell(<<"/", SQ>>), BinSh)}

\* "missing" is a directory that does not exist
StoreTempDirs == TempDirs \cup {"missing"}

\* what the temp directories hold when the call is made
StoreBefore == {{}} \cup {{Leftover(1, k)} : k \in LeftoverKinds}

InitStore ==
    /\ OrchIdleLocals
    /\ fn = ""
    /\ arg \in [content : StoreContents,
                extension : StringsUpTo(ExtAlphabet, MaxExtLen),
                tempDir : StoreTempDirs,
                before : StoreBefore]
    /\ files = arg.before
    /\ out = NoOut

\* the temp directories hold arg.before when the call is made
CallCreateTemporaryScript ==
    /\ fn = ""
    /\ \E created \in BOOLEAN, umask \in Umasks, written \in BOOLEAN, changed \in BOOLEAN :
          LET c == createTemporaryScript(files, arg.content, arg.extension,
                                         arg.tempDir, created, umask, written, changed)
          IN  /\ (arg.tempDir = "missing" => ~created)
              /\ files' = c.files
              /\ out' = [NoOut EXCEPT !.cause = c.err, !.path = c.name, !.id = c.id]
    /\ fn' = "createTemporaryScript"
    /\ UNCHANGED <<pc, targetPath, opts, envShell, targetStat, validatedPath, shell,
                   scriptContent, scriptPath, ret, trace, failedAt, interfered, arg>>

NextStore ==
    \/ CallCreateTemporaryScript

SpecStore == InitStore /\ [][NextStore]_vars

-----------------------------------------------------------------------------
(* cleanupOldScripts, applied to arbitrary directory contents and thresholds *)

\* thresholds and ages in hours
MaxAges == {0, OrchestratorMaxAge, DefaultMaxAge}

EntryAges == {0, 2, 25}

EntryKinds ==
    [dir : {"sys", "custom"}, prefixed : BOOLEAN, age : EntryAges]

EntrySets ==
    {{Leftover(i, ks[i]) : i \in 1..Len(ks)} : ks \in StringsUpTo(EntryKinds, MaxStaleFiles)}

\* readOK: os.ReadDir of the temp directory works; locked: the entries os.Remove
\* cannot delete; both are properties of the directory, the same for every call
InitCleanup ==
    /\ OrchIdleLocals
    /\ fn = ""
    /\ arg \in [maxAge : MaxAges, before : EntrySets, readOK : BOOLEAN,
                locked : SUBSET (1..MaxStaleFiles)]
    /\ (\A i \in arg.locked : HasFile(arg.before, i))
    /\ files = arg.before
    /\ out = NoOut

LockedEntries(fs) == {f \in fs : f.id \in arg.locked}

\* cleanupOldScripts(arg.maxAge), the first call
CallCleanupOldScripts ==
    /\ fn = ""
    /\ LET c == cleanupOldScripts(files, arg.maxAge, arg.readOK, LockedEntries(files))
       IN  /\ files' = c.files
           /\ out' = [NoOut EXCEPT !.cause = c.err, !.snapshot = c.files]
    /\ fn' = "cleanupOldScripts"
    /\ UNCHANGED <<pc, targetPath, opts, envShell, targetStat, validatedPath, shell,
                   scriptContent, scriptPath, ret, trace, failedAt, interfered, arg>>

\* cleanupOldScripts(arg.maxAge) called again right after the first call
CallCleanupOldScriptsAgain ==
    /\ fn = "cleanupOldScripts"
    /\ LET c == cleanupOldScripts(files, arg.maxAge, arg.readOK, LockedEntries(files))
       IN  /\ files' = c.files
           /\ out' = [out EXCEPT !.cause = c.err]
    /\ fn' = "cleanupOldScripts twice"
    /\ UNCHANGED <<pc, targetPath, opts, envShell, targetStat, validatedPath, shell,
                   scriptContent, scriptPath, ret, trace, failedAt, interfered, arg>>

NextCleanup ==
    \/ CallCleanupOldScripts
    \/ CallCleanupOldScriptsAgain

SpecCleanup == InitCleanup /\ [][NextCleanup]_vars

-----------------------------------------------------------------------------
(* ExecReplacement, applied to arbitrary shell descriptors and script files *)

ExecShellPaths == StringsUpTo(ShellAlphabet, MaxShellPathLen) \cup {BinSh}

ExecShells ==
    {NoShell} \cup {ShellInfo(p, v) : p \in ExecShellPaths, v \in BOOLEAN}

InitExec ==
    /\ OrchIdle
    /\ fn = ""
    /\ arg \in [scriptPath : {0, 1}, shell : ExecShells, stat : ScriptStatOutcomes]
    /\ out = NoOut

\* ExecReplacement(arg.scriptPath, arg.shell, debugMode)
CallExecReplacement ==
    /\ fn = ""
    /\ \E execOK \in BOOLEAN :
          LET x == ExecReplacement(arg.scriptPath, arg.shell, arg.stat, execOK)
          IN  out' = [NoOut EXCEPT !.val = x.replaced, !.exec = x.exec,
                                   !.kind = x.err.Type, !.cause = x.err.Cause]
    /\ fn' = "ExecReplacement"
    /\ UNCHANGED <<orchVars, arg>>

NextExec ==
    \/ CallExecReplacement

SpecExec == InitExec /\ [][NextExec]_vars

-----------------------------------------------------------------------------
(* /bin/sh running the generated script, after a successful ExecReplacement *)

ShTraps == {"EXIT", "INT", "TERM"}

NoRun == [traps |-> {}, TARGET_DIR |-> <<>>, SHELL_PATH |-> <<>>, cdOK |-> FALSE,
          stdout |-> <<>>, stderr |-> <<>>, image |-> <<>>]

\* the script of generateScript(arg.targetDir, shell) is stored as file 1
InitRun ==
    /\ pc = "sh_trap"
    /\ arg \in [targetDir : StringsUpTo(ScriptAlphabet, MaxScriptPathLen),
                shellPath : StringsUpTo(ShellAlphabet, MaxShellPathLen) \ {<<>>}]
    /\ targetPath = arg.targetDir
    /\ opts = NilOptions
    /\ envShell = arg.shellPath
    /\ targetStat = "dir"
    /\ validatedPath = arg.targetDir
    /\ shell = ShellInfo(arg.shellPath, TRUE)
    /\ scriptContent = generateScript(validatedPath, shell).script
    /\ scriptPath = 1
    /\ files = {[NewTempFile({}, "", shell.ScriptExt, <<0, 0, 0>>)
                    EXCEPT !.content = scriptContent, !.mode = ScriptMode]}
    /\ ret = NilError
    /\ trace = <<>>
    /\ failedAt = ""
    /\ interfered = FALSE
    /\ fn = "sh"
    /\ out = NoRun

\* the action of the trap: rm -f "$0" 2>/dev/null || true
TrapAction(fs) == OsRemove(fs, scriptPath)

\* trap 'rm -f "$0" 2>/dev/null || true' EXIT INT TERM
RunTrap ==
    /\ pc = "sh_trap"
    /\ out' = [out EXCEPT !.traps = ShTraps]
    /\ trace' = Append(trace, "trap")
    /\ pc' = "sh_assign"
    /\ UNCHANGED <<targetPath, opts, envShell, files, targetStat, validatedPath, shell,
                   scriptContent, scriptPath, ret, failedAt, interfered, fn, arg>>

\* TARGET_DIR='...' and SHELL_PATH='...'; a word that does not read back as one
\* literal is a syntax error or runs other commands, and the shell may or may
\* not take its EXIT trap when it gives up
RunAssign ==
    /\ pc = "sh_assign"
    /\ LET t == ShAssign(scriptContent.TARGET_DIR)
           p == ShAssign(scriptContent.SHELL_PATH)
       IN  IF t.ok /\ p.ok
           THEN /\ out' = [out EXCEPT !.TARGET_DIR = t.val, !.SHELL_PATH = p.val]
                /\ trace' = Append(trace, "assign")
                /\ pc' = "sh_cd"
                /\ UNCHANGED files
           ELSE /\ pc' = "sh_aborted"
                /\ \E trapped \in BOOLEAN : files' = IF trapped THEN TrapAction(files) ELSE files
                /\ UNCHANGED <<out, trace>>
    /\ UNCHANGED <<targetPath, opts, envShell, targetStat, validatedPath, shell,
                   scriptContent, scriptPath, ret, failedAt, interfered, fn, arg>>

\* if cd "$TARGET_DIR" 2>/dev/null; the directory may have vanished
RunCd ==
    /\ pc = "sh_cd"
    /\ \E ok \in BOOLEAN : out' = [out EXCEPT !.cdOK = ok]
    /\ trace' = Append(trace, "cd")
    /\ pc' = "sh_echo"
    /\ UNCHANGED <<targetPath, opts, envShell, files, targetStat, validatedPath, shell,
                   scriptContent, scriptPath, ret, failedAt, interfered, fn, arg>>

\* then echo "Directory changed to: ..." else echo "Warning: ..." >&2 fi
RunEcho ==
    /\ pc = "sh_echo"
    /\ IF out.cdOK
       THEN /\ out' = [out EXCEPT !.stdout = Append(out.stdout, "Directory changed to")]
            /\ trace' = Append(trace, "confirm")
       ELSE /\ out' = [out EXCEPT !.stderr = Append(out.stderr, "Warning: Could not change")]
            /\ trace' = Append(trace, "warn")
    /\ pc' = "sh_exec"
    /\ UNCHANGED <<targetPath, opts, envShell, files, targetStat, validatedPath, shell,
                   scriptContent, scriptPath, ret, failedAt, interfered, fn, arg>>

\* exec "$SHELL_PATH": a successful exec replaces the shell that holds the
\* traps, so no trap is taken; a failed exec ends the script and takes EXIT
RunExec ==
    /\ pc = "sh_exec"
    /\ trace' = Append(trace, "exec")
    /\ \E execOK \in BOOLEAN :
          IF execOK
          THEN /\ out' = [out EXCEPT !.image = out.SHELL_PATH, !.traps = {}]
               /\ pc' = "user_shell"
               /\ UNCHANGED files
          ELSE /\ pc' = "sh_exited"
               /\ files' = IF "EXIT" \in out.traps THEN TrapAction(files) ELSE files
               /\ UNCHANGED out
    /\ UNCHANGED <<targetPath, opts, envShell, targetStat, validatedPath, shell,
                   scriptContent, scriptPath, ret, failedAt, interfered, fn, arg>>

\* SIGINT or SIGTERM while the script runs: the trap is taken, the script goes on
RunSignal ==
    /\ pc \in {"sh_assign", "sh_cd", "sh_echo", "sh_exec"}
    /\ out.traps \cap {"INT", "TERM"} # {}
    /\ HasFile(files, scriptPath)
    /\ files' = TrapAction(files)
    /\ UNCHANGED <<pc, targetPath, opts, envShell, targetStat, validatedPath, shell,
                   scriptContent, scriptPath, ret, trace, failedAt, interfered, fn, arg, out>>

NextRun ==
    \/ RunTrap
    \/ RunAssign
    \/ RunCd
    \/ RunEcho
    \/ RunExec
    \/ RunSignal

SpecRun == InitRun /\ [][NextRun]_vars

\* the script runs to its end; signals need not come
SpecRunLive ==
    /\ InitRun
    /\ [][NextRun]_vars
    /\ WF_vars(RunTrap \/ RunAssign \/ RunCd \/ RunEcho \/ RunExec)

-----------------------------------------------------------------------------
(* AutoCDError.IsRecoverable, applied to errors of every kind *)

ErrorCauses == {"nil", "ErrPathNotFound", "ErrSecurityViolation", "exec: errno",
                "failed to create temp file"}

ErrorPaths == {<<>>, <<"/", "a">>, <<"a">>, <<"/", SQ>>}

InitErrors ==
    /\ OrchIdle
    /\ fn = ""
    /\ arg \in {AutoCDError(t, m, p, c) :
                  t \in ErrorKinds, m \in {"", "autocd: failed"}, p \in ErrorPaths,
                  c \in ErrorCauses}
    /\ out = NoOut

\* arg.IsRecoverable()
CallIsRecoverable ==
    /\ fn = ""
    /\ out' = [NoOut EXCEPT !.val = IsRecoverable(arg), !.kind = arg.Type]
    /\ fn' = "IsRecoverable"
    /\ UNCHANGED <<orchVars, arg>>

NextErrors ==
    \/ CallIsRecoverable

SpecErrors == InitErrors /\ [][NextErrors]_vars

-----------------------------------------------------------------------------
(* ExitWithDirectoryOrFallback: ExitWithDirectory, then fallback(), then os.Exit(1) *)

NoFallback == [fallback |-> FALSE, returned |-> FALSE, status |-> -1]

\* statuses a caller's fallback exits with when it does not return
FallbackStatuses == {0, 2}

InitFallback ==
    /\ pc = "cleanup"
    /\ targetPath \in TargetPaths
    /\ opts = NilOptions
    /\ envShell = <<>>
    /\ files \in LeftoverSets
    /\ targetStat = ""
    /\ validatedPath = <<>>
    /\ shell = NoShell
    /\ scriptContent = NoScript
    /\ scriptPath = 0
    /\ ret = NilError
    /\ trace = <<>>
    /\ failedAt = ""
    /\ interfered = FALSE
    /\ fn = "ExitWithDirectoryOrFallback"
    /\ arg = <<>>
    /\ out = NoFallback

\* if err := ExitWithDirectory(targetPath); err != nil { fallback() }
CallFallback ==
    /\ fn = "ExitWithDirectoryOrFallback"
    /\ pc = "returned"
    /\ IF ~ret.nil
       THEN /\ pc' = "fallback"
            /\ out' = [out EXCEPT !.fallback = TRUE]
       ELSE /\ pc' = "exited"
            /\ out' = [out EXCEPT !.status = 1]
    /\ UNCHANGED <<targetPath, opts, envShell, files, targetStat, validatedPath, shell,
                   scriptContent, scriptPath, ret, trace, failedAt, interfered, fn, arg>>

\* fallback() returns: os.Exit(1)
FallbackReturns ==
    /\ fn = "ExitWithDirectoryOrFallback"
    /\ pc = "fallback"
    /\ pc' = "exited"
    /\ out' = [out EXCEPT !.returned = TRUE, !.status = 1]
    /\ UNCHANGED <<targetPath, opts, envShell, files, targetStat, validatedPath, shell,
                   scriptContent, scriptPath, ret, trace, failedAt, interfered, fn, arg>>

\* fallback() ends the process itself, as the readme's os.Exit(0) does
FallbackExits ==
    /\ fn = "ExitWithDirectoryOrFallback"
    /\ pc = "fallback"
    /\ \E status \in FallbackStatuses :
          out' = [out EXCEPT !.status = status]
    /\ pc' = "exited"
    /\ UNCHANGED <<targetPath, opts, envShell, files, targetStat, validatedPath, shell,
                   scriptContent, scriptPath, ret, trace, failedAt, interfered, fn, arg>>

NextFallback ==
    \/ Cleanup
    \/ Validate
    \/ Detect
    \/ Generate
    \/ StoreCreate
    \/ StoreWrite
    \/ StoreChmod
    \/ Interfere
    \/ Replace
    \/ CallFallback
    \/ FallbackReturns
    \/ FallbackExits

SpecFallback == InitFallback /\ [][NextFallback]_vars

-----------------------------------------------------------------------------
(* ExitWithDirectoryAdvanced on targets inside and outside the temp directory *)

ReconcileTargets == {<<"/", "a">>, <<"a">>, <<"/", "a", NUL>>, TempDirTarget}

ReconcileOptions == {NilOptions, Options(<<>>, SecurityStrict, "custom")}

\* the leftovers, with or without the directory TempDirTarget names
ReconcileSets ==
    LeftoverSets \cup
    {s \cup {LeftoverDir(FreshId(s), age)} : s \in LeftoverSets, age \in {0, 2}}

InitReconcile ==
    /\ pc = "cleanup"
    /\ targetPath \in ReconcileTargets
    /\ opts \in ReconcileOptions
    /\ envShell = <<>>
    /\ files \in ReconcileSets
    /\ targetStat = ""
    /\ validatedPath = <<>>
    /\ shell = NoShell
    /\ scriptContent = NoScript
    /\ scriptPath = 0
    /\ ret = NilError
    /\ trace = <<>>
    /\ failedAt = ""
    /\ interfered = FALSE
    /\ fn = ""
    /\ arg = <<>>
    /\ out = <<>>

SpecReconcile == InitReconcile /\ [][Next]_vars

-----------------------------------------------------------------------------
(* cleanupOldScripts entry by entry, while other processes delete files of the
   same temp directory; every entry is one the pass is allowed to remove *)

NoPass == [listing |-> {}, todo |-> {}, cur |-> 0, err |-> "", skipped |-> {},
           removed |-> {}, missed |-> {}]

RaceVars == <<targetPath, opts, envShell, targetStat, validatedPath, shell,
              scriptContent, scriptPath, ret, trace, failedAt, interfered, fn, arg>>

InitRace ==
    /\ pc = "pass_list"
    /\ targetPath = <<>>
    /\ opts = NilOptions
    /\ envShell = <<>>
    /\ targetStat = ""
    /\ validatedPath = <<>>
    /\ shell = NoShell
    /\ scriptContent = NoScript
    /\ scriptPath = 0
    /\ ret = NilError
    /\ trace = <<>>
    /\ failedAt = ""
    /\ interfered = FALSE
    /\ fn = "cleanupOldScripts"
    /\ arg \in [maxAge : {OrchestratorMaxAge, DefaultMaxAge}, before : EntrySets,
                readOK : BOOLEAN]
    /\ files = arg.before
    /\ out = NoPass

\* the next entry of the range loop; os.ReadDir sorts the entries by name
NextEntry(todo) == CHOOSE i \in todo : \A j \in todo : i <= j

\* a failed entry.Info() ends the pass with that error
InfoErrorAborts(p) == [p EXCEPT !.todo = {}, !.cur = 0, !.err = "info"]

\* if err != nil { continue }
InfoErrorSkips(p) == [p EXCEPT !.cur = 0]

\* entries, err := os.ReadDir(tempDir)
PassReadDir ==
    /\ pc = "pass_list"
    /\ IF arg.readOK
       THEN LET l == {f \in files : f.dir = "sys"}
            IN  /\ out' = [out EXCEPT !.listing = l, !.todo = {f.id : f \in l}]
                /\ pc' = "pass_next"
       ELSE /\ out' = [out EXCEPT !.err = "readdir"]
            /\ pc' = "pass_done"
    /\ UNCHANGED <<RaceVars, files>>

\* for _, entry := range entries; strings.HasPrefix(entry.Name(), "autocd_"); return nil
PassNext ==
    /\ pc = "pass_next"
    /\ IF out.todo = {}
       THEN /\ out' = [out EXCEPT !.err = "nil"]
            /\ pc' = "pass_done"
       ELSE LET i == NextEntry(out.todo)
            IN  /\ out' = [out EXCEPT !.todo = @ \ {i},
                                     !.cur = IF FileById(out.listing, i).prefixed THEN i ELSE 0]
                /\ pc' = IF FileById(out.listing, i).prefixed THEN "pass_info" ELSE "pass_next"
    /\ UNCHANGED <<RaceVars, files>>

\* info, err := entry.Info(); info.ModTime().Before(cutoff)
PassInfo ==
    /\ pc = "pass_info"
    /\ IF ~HasFile(files, out.cur)
       THEN /\ out' = InfoErrorSkips([out EXCEPT !.skipped = @ \cup {out.cur}])
            /\ pc' = IF out'.err = "" THEN "pass_next" ELSE "pass_done"
       ELSE IF FileById(files, out.cur).age > arg.maxAge
            THEN /\ pc' = "pass_remove"
                 /\ UNCHANGED out
            ELSE /\ out' = [out EXCEPT !.cur = 0]
                 /\ pc' = "pass_next"
    /\ UNCHANGED <<RaceVars, files>>

\* os.Remove(filepath.Join(tempDir, entry.Name())), its error dropped
PassRemove ==
    /\ pc = "pass_remove"
    /\ files' = OsRemove(files, out.cur)
    /\ out' = IF HasFile(files, out.cur)
              THEN [out EXCEPT !.removed = @ \cup {out.cur}, !.cur = 0]
              ELSE [out EXCEPT !.missed = @ \cup {out.cur}, !.cur = 0]
    /\ pc' = "pass_next"
    /\ UNCHANGED RaceVars

\* another process deletes a prefixed file of the directory: the script's
\* own trap, or the pass of another invocation
OtherProcessRemoves ==
    /\ pc \in {"pass_list", "pass_next", "pass_info", "pass_remove"}
    /\ \E f \in files :
          /\ f.dir = "sys"
          /\ f.prefixed
          /\ files' = OsRemove(files, f.id)
    /\ UNCHANGED <<RaceVars, pc, out>>

NextRace ==
    \/ PassReadDir
    \/ PassNext
    \/ PassInfo
    \/ PassRemove
    \/ OtherProcessRemoves

SpecRace == InitRace /\ [][NextRace]_vars

-----------------------------------------------------------------------------
(* Properties *)

StepOrder == <<"validate", "shell", "generate", "store", "replace">>

IsPrefix(s, t) == Len(s) <= Len(t) /\ \A i \in 1..Len(s) : s[i] = t[i]

PathKinds == {"ErrorPathNotFound", "ErrorPathNotDirectory", "ErrorPathNotAccessible",
              "ErrorSecurityViolation"}

\* the kinds that name each stage; the store step is given both script kinds
StageKinds(step) ==
    CASE step = "validate" -> PathKinds
      [] step = "shell" -> {"ErrorShellNotFound"}
      [] step = "generate" -> {"ErrorScriptGeneration"}
      [] step = "store" -> {"ErrorScriptGeneration", "ErrorScriptExecution"}
      [] step = "replace" -> {"ErrorScriptExecution"}
      [] OTHER -> {}

OwnFiles == {f \in files : f.mine}

\* C1: the fallible steps run in the order validate, shell, generate, store,
\* replace, none twice and none after a failed one, and the step that fails
\* ends the call by returning an error whose kind names that step's stage.
C1_StepsInOrderFailureTagged ==
    /\ IsPrefix(trace, StepOrder)
    /\ failedAt # "" =>
          /\ trace # <<>>
          /\ trace[Len(trace)] = failedAt
          /\ pc = "returned"
          /\ ~ret.nil
          /\ ret.Type \in StageKinds(failedAt)

\* C2: whatever ExitWithDirectory / ExitWithDirectoryAdvanced returns is a
\* non-nil structured AutoCDError with a kind, a message and its cause; a
\* replaced process returns nothing.
C2_EveryReturnIsAutoCDError ==
    /\ pc = "returned" =>
          /\ ~ret.nil
          /\ ret.structured
          /\ ret.Type \in ErrorKinds
          /\ ret.Message # ""
    /\ pc # "returned" => ret = NilError

\* C2 witness: a replacement that failed in syscall.Exec has returned
C2_Witness ==
    pc = "returned" /\ failedAt = "replace" /\ ret.Cause = "exec: errno"

\* C3: when validation fails or the resolved shell is invalid, the call returns
\* the path error (PathNotFound for an absent target) resp. ShellNotFound, and
\* the invocation has generated no script and created no script file; a script
\* or script file exists only after both steps succeeded.
C3_NoScriptBeforeShellResolved ==
    /\ failedAt = "validate" =>
          /\ pc = "returned"
          /\ ret.Type \in PathKinds
          /\ (targetStat = "absent" => ret.Type = "ErrorPathNotFound")
          /\ scriptContent = NoScript /\ scriptPath = 0 /\ OwnFiles = {}
    /\ (~shell.isNil /\ ~shell.IsValid) =>
          /\ pc = "returned"
          /\ ret.Type = "ErrorShellNotFound"
          /\ scriptContent = NoScript /\ scriptPath = 0 /\ OwnFiles = {}
    /\ (scriptContent # NoScript \/ scriptPath # 0 \/ OwnFiles # {}) =>
          /\ Len(trace) >= 3
          /\ shell.IsValid

\* C3 witness: an invalid shell ended a call whose temp directory holds leftovers
C3_Witness ==
    /\ pc = "returned" /\ failedAt = "shell" /\ ~shell.IsValid
    /\ files # {}

C6_ScriptFileOwnerOnly ==
    /\ \A f \in OwnFiles : f.mode[2] = 0 /\ f.mode[3] = 0
    /\ \A f \in OwnFiles : pc \in {"replace", "replaced"} => f.mode = <<7, 0, 0>>

\* C6 witness: the stored script is about to be executed
C6_Witness ==
    pc = "replace" /\ OwnFiles # {} /\ ~interfered

CountOf(s, c) == Cardinality({i \in 1..Len(s) : s[i] = c})

C8_ShellPathRoundTrip ==
    fn # "" => ShAssign(out.script.SHELL_PATH) = [val |-> arg.shellPath, ok |-> TRUE]

NormalOrStrictCall ==
    \/ fn \in {"validateNormal", "validateStrict"}
    \/ fn = "ValidateDirectory" /\ arg.level \in {SecurityNormal, SecurityStrict}

C10_NulByteIsSecurityViolation ==
    (NormalOrStrictCall /\ Contains(arg.path, NUL) /\ out.stat # "unresolved") =>
        /\ out.cause = "ErrSecurityViolation"
        /\ fn = "ValidateDirectory" => out.kind = "ErrorSecurityViolation"

StrictCall ==
    \/ fn = "validateStrict"
    \/ fn = "ValidateDirectory" /\ arg.level = SecurityStrict

\* C11: strict validation of a path that the existence checks do not turn away
\* rejects it with SecurityViolation when its resolved form holds a control
\* byte or is longer than 4096 bytes, and accepts the resolved form unchanged
\* when it is an existing listable directory with neither.
C11_StrictRejectsControlAndLong ==
    (StrictCall /\ out.stat \notin {"unresolved", "absent", "file", "dir_unlistable"}) =>
        /\ (ContainsAny(out.abs, ControlBytes) \/ ByteLen(out.abs) > StrictMaxLen) =>
              /\ out.cause = "ErrSecurityViolation"
              /\ fn = "ValidateDirectory" => out.kind = "ErrorSecurityViolation"
        /\ (/\ ~ContainsAny(out.abs, ControlBytes)
            /\ ByteLen(out.abs) <= StrictMaxLen
            /\ out.stat \in {"dir", ""}) =>
              /\ out.cause = "nil"
              /\ out.path = out.abs

\* C12: with no override and a resolver that returned, the descriptor's path is
\* the value of SHELL only when that path is an existing executable file; when
\* SHELL is unset or is not such a file the path is /bin/sh.
C12_ShellEnvFallsBackToBinSh ==
    (fn = "detectShell" /\ arg.shellOverride = <<>> /\ ~out.panic) =>
        /\ (out.info.Path = arg.envSHELL /\ arg.envSHELL # BinSh) =>
              (arg.envSHELL # <<>> /\ out.stat = "file_exec")
        /\ (arg.envSHELL = <<>> \/ out.stat # "file_exec") => out.info.Path = BinSh

\* C13: detectShell returns for every override, environment and answer of the
\* filesystem, with a non-nil descriptor that is invalid when the path is
\* absent, a directory or cannot be statted.
C13_DetectShellNeverFails ==
    fn = "detectShell" =>
        /\ ~out.panic
        /\ ~out.info.isNil
        /\ out.stat \in {"absent", "dir", "error"} => ~out.info.IsValid

\* C14: a descriptor is valid, and fileExists is true, exactly when the path
\* stats as a non-directory file with an executable bit.
C14_ValidIffExecutableFile ==
    (fn \in {"detectShell", "fileExists"} /\ ~out.panic) =>
        (out.val <=> out.stat = "file_exec")

StoredFile == FileById(files, out.id)

C16_CleanupDeletesOnlyOldPrefixed ==
    fn = "cleanupOldScripts" =>
        /\ files \subseteq arg.before
        /\ \A f \in arg.before \ files :
              f.dir = "sys" /\ f.prefixed /\ f.age > arg.maxAge
        /\ \A f \in arg.before :
              (/\ f.dir = "sys" /\ f.prefixed /\ f.age > arg.maxAge
               /\ arg.readOK /\ f.id \notin arg.locked) => f \notin files

\* C16 witness: a pass deleted an old prefixed entry and left an old entry
\* without the prefix
C16_Witness ==
    /\ fn = "cleanupOldScripts"
    /\ arg.before \ files # {}
    /\ \E f \in files : f.dir = "sys" /\ ~f.prefixed /\ f.age > arg.maxAge

C17_YoungScriptsSurviveInvocation ==
    [][\A f \in files : (f.prefixed /\ ~f.mine /\ f.age < DefaultMaxAge) => f \in files']_vars

\* C19: once the reconciliation pass of an invocation with a custom TempDir
\* has run, that directory holds no prefixed script of an earlier run that is
\* older than the threshold.
C19_CustomTempDirCleaned ==
    (pc # "cleanup" /\ EffectiveOpts(opts).TempDir = "custom") =>
        ~\E f \in files : f.dir = "custom" /\ f.prefixed /\ ~f.mine /\ f.age > DefaultMaxAge

ExecPreconditions ==
    /\ arg.scriptPath # 0
    /\ arg.stat = "file_exec"
    /\ ~arg.shell.isNil /\ arg.shell.IsValid

\* C21: ExecReplacement calls syscall.Exec only when the script path is
\* non-empty and stats as a regular file with an executable bit and the shell
\* descriptor is non-nil and valid; otherwise it returns an error, has made
\* no exec call and the process is not replaced.
C21_ExecOnlyWhenPreconditionsHold ==
    fn = "ExecReplacement" =>
        /\ out.exec # NoExec => ExecPreconditions
        /\ ~ExecPreconditions =>
              /\ out.exec = NoExec
              /\ ~out.val
              /\ out.kind \in ErrorKinds

ScriptSteps(cdOK) ==
    <<"trap", "assign", "cd", IF cdOK THEN "confirm" ELSE "warn", "exec">>

\* C22: the script registers the trap, then attempts the cd, then execs the
\* resolved shell, in this order; every run ends in that exec, after the
\* confirmation on stdout when the cd worked and after the warning on stderr
\* when it did not.
C22_ScriptTrapCdExecInOrder ==
    fn = "sh" =>
        /\ IsPrefix(trace, ScriptSteps(TRUE)) \/ IsPrefix(trace, ScriptSteps(FALSE))
        /\ pc \in {"user_shell", "sh_exited", "sh_aborted"} =>
              /\ trace = ScriptSteps(out.cdOK)
              /\ out.SHELL_PATH = arg.shellPath
              /\ out.cdOK => (out.stdout # <<>> /\ out.stderr = <<>>)
              /\ ~out.cdOK => (out.stderr # <<>> /\ out.stdout = <<>>)
        /\ pc = "user_shell" => out.image = arg.shellPath

\* C23: once the script has exec'ed the user's shell, the script file is
\* eventually gone without any other program removing it.
C23_ScriptFileDeletedAfterHandoff ==
    (fn = "sh" /\ pc = "user_shell") ~> ~HasFile(files, scriptPath)

\* C24: IsRecoverable is false for kind ShellNotFound and true for each of
\* PathNotFound, PathNotDirectory, PathNotAccessible, SecurityViolation,
\* ScriptGeneration and ScriptExecution, whatever else the error holds.
C24_OnlyShellNotFoundUnrecoverable ==
    fn = "IsRecoverable" =>
        /\ arg.Type = "ErrorShellNotFound" => ~out.val
        /\ arg.Type \in {"ErrorPathNotFound", "ErrorPathNotDirectory",
                         "ErrorPathNotAccessible", "ErrorSecurityViolation",
                         "ErrorScriptGeneration", "ErrorScriptExecution"} => out.val

\* C24 witness: a kind the switch does not name, ScriptExecution, is recoverable
C24_Witness ==
    fn = "IsRecoverable" /\ arg.Type = "ErrorScriptExecution" /\ out.val

\* C25: a failure of the store step inside ExitWithDirectoryAdvanced is
\* returned as an error of kind ScriptExecution, like a failure of the
\* replace step, and kind ScriptGeneration is returned only when
\* rendering the script failed.
C25_StoreFailureIsScriptExecution ==
    pc = "returned" =>
        /\ failedAt \in {"store", "replace"} => ret.Type = "ErrorScriptExecution"
        /\ ret.Type = "ErrorScriptGeneration" => failedAt = "generate"

\* the steps of ExitWithDirectoryOrFallback that are still to run
FallbackRunning ==
    pc \in {"cleanup", "validate", "detect", "generate", "store_create", "store_write",
            "store_chmod", "replace", "returned", "fallback"}

\* C26: ExitWithDirectoryOrFallback never hands control back: when it has
\* stopped running the process was replaced by the transition script, or
\* the fallback was invoked after a failure and the process exited, with
\* status 1 if the fallback returned.
C26_OrFallbackNeverReturns ==
    fn = "ExitWithDirectoryOrFallback" =>
        /\ pc \in {"fallback", "exited"} => (out.fallback /\ ~ret.nil)
        /\ (pc = "exited" /\ out.returned) => out.status = 1
        /\ ~FallbackRunning => (pc = "replaced" \/ (pc = "exited" /\ out.fallback))

\* the results validateTargetPath can give for the target over the directory fs
ValidationResults(fs) ==
    {validateTargetPath(targetPath, EffectiveOpts(opts).SecurityLevel, in.getwdOK, in.st) :
        in \in ValidateInputs(fs, targetPath)}

\* C27: the reconciliation pass of an invocation runs once, before target
\* validation starts, and whatever its outcome (all stale files deleted, the
\* directory not listed, some deletions failed) the invocation goes on to
\* validation with nothing returned, and validation gives the results it
\* would have given had the pass not run.
C27_ReconciliationOnceAndInert ==
    [][ /\ pc' = "cleanup" => pc = "cleanup"
        /\ trace' # <<>> => pc # "cleanup"
        /\ (pc = "cleanup" /\ pc' # "cleanup") =>
              /\ pc' = "validate"
              /\ UNCHANGED <<targetPath, opts, ret, failedAt, trace, validatedPath, shell>>
              /\ ValidationResults(files') = ValidationResults(files)
      ]_vars

\* C28: when a listed prefixed file is removed by another process before the
\* pass stats or deletes it, the pass goes on with the remaining entries:
\* once it has ended after a successful listing it returns no error and no
\* stale prefixed file of its listing is left in the directory.
C28_VanishedFileIsNoError ==
    (fn = "cleanupOldScripts" /\ pc = "pass_done" /\ arg.readOK) =>
        /\ out.err = "nil"
        /\ out.todo = {}
        /\ \A f \in StaleEntries(out.listing, arg.maxAge) : ~HasFile(files, f.id)

\* C28 witness: one listed file had vanished before the pass reached it and
\* the pass still deleted another stale prefixed file after that
C28_Witness ==
    /\ fn = "cleanupOldScripts" /\ pc = "pass_done" /\ out.err = "nil"
    /\ \E i \in out.skipped \cup out.missed : \E j \in out.removed : i < j

\* what validateTargetPath returned for the level
AtLevel(level) == CHOOSE r \in out.snapshot : r.level = level

Accepts(level) == AtLevel(level).err = "nil"

C30_PathNotFoundOnlyWhenAbsent ==
    (fn = "ValidateDirectory" /\ out.kind = "ErrorPathNotFound") => out.stat = "absent"

====
